---- MODULE Spec2Model ----
(***************************************************************************)
(* A model of zeekpkg/package.py: the version-spec matcher                 *)
(* (PackageVersion.fullfills), the package identity functions              *)
(* (canonical_url, name_from_path, Package) and InstalledPackage.          *)
(*                                                                         *)
(* Python strings are modelled as sequences of one-character strings, so   *)
(* that prefix tests, splitting, stripping and lexicographic comparison    *)
(* are computed character by character as the code computes them.  A       *)
(* formatted message (an f-string) is the concatenation of its literal     *)
(* fragments, each kept as one element, with the formatted values spliced  *)
(* in character by character.                                              *)
(***************************************************************************)
EXTENDS Integers, Sequences, FiniteSets, TLC

VARIABLES
    pv,        \* the PackageVersion object: method, version, req_semver
    last,      \* the outcome of the last sequential fullfills call
    tpc,       \* per thread: position inside fullfills
    tspec,     \* per thread: the version_spec argument
    tlocal,    \* per thread: the local normal_version / coerced value
    tres,      \* per thread: the outcome of the call
    ncomputed, \* how many times the normalization was computed
    pkgs,      \* the Package objects constructed so far
    fs,        \* the file system the locators are resolved against
    installed, \* a Python set of InstalledPackage values
    hashes,    \* hash() of the strings hashed so far in this process
    probe      \* the outcome of the last query on the package objects

vars == <<pv, last, tpc, tspec, tlocal, tres, ncomputed, pkgs, fs, installed, hashes, probe>>

pvVars == <<pv, last>>
thVars == <<tpc, tspec, tlocal, tres, ncomputed>>
pkVars == <<pkgs, fs, installed, hashes, probe>>

-----------------------------------------------------------------------------
(* Python values *)

\* Python's None where a str | None is expected. Real strings are sequences
\* of single characters, so no string equals it.
None == <<"None">>

\* The characters that occur in the inputs, in code-point order.
Alphabet ==
    <<"\t", "\n", "", "\f", "\r", "", "", "", "", " ",
      "!", "\"", "*", "+", ",", "-", ".", "/",
      "0", "1", "2", "3", "4", "5", "6", "7", "8", "9",
      ":", "<", "=", ">", "^", "_",
      "a", "b", "c", "d", "e", "f", "g", "h", "i", "j", "k", "l", "m",
      "n", "o", "p", "q", "r", "s", "t", "u", "v", "w", "x", "y", "z", "~",
      "", " ", "\\u1680",
      "\\u2000", "\\u2001", "\\u2002", "\\u2003", "\\u2004", "\\u2005", "\\u2006", "\\u2007",
      "\\u2008", "\\u2009", "\\u200a", "\\u2028", "\\u2029", "\\u202f", "\\u205f", "\\u3000">>

Digits == <<"0", "1", "2", "3", "4", "5", "6", "7", "8", "9">>

IsDigit(c) == \E i \in 1..Len(Digits) : Digits[i] = c

DigitVal(c) == (CHOOSE i \in 1..Len(Digits) : Digits[i] = c) - 1

\* ord(c): the position of the character in code-point order
Ord(c) == CHOOSE i \in 1..Len(Alphabet) : Alphabet[i] = c

\* a literal fragment of a formatted message
Lit(s) == <<s>>

\* str.startswith
StartsWith(s, p) ==
    /\ Len(p) <= Len(s)
    /\ SubSeq(s, 1, Len(p)) = p

\* s[n:]
DropPrefix(s, n) == SubSeq(s, n + 1, Len(s))

\* str.rstrip(c): every trailing c is removed
RECURSIVE RStrip(_, _)
RStrip(s, c) ==
    IF Len(s) > 0 /\ s[Len(s)] = c
    THEN RStrip(SubSeq(s, 1, Len(s) - 1), c)
    ELSE s

\* str.split(c): the fields between the separators, empty fields kept
RECURSIVE Split(_, _)
Split(s, c) ==
    IF \A i \in 1..Len(s) : s[i] # c
    THEN <<s>>
    ELSE LET k == CHOOSE i \in 1..Len(s) :
                      /\ s[i] = c
                      /\ \A j \in 1..(i - 1) : s[j] # c
         IN  <<SubSeq(s, 1, k - 1)>> \o Split(SubSeq(s, k + 1, Len(s)), c)

\* c.join(parts)
RECURSIVE Join(_, _)
Join(parts, c) ==
    IF Len(parts) = 0 THEN <<>>
    ELSE IF Len(parts) = 1 THEN parts[1]
    ELSE parts[1] \o <<c>> \o Join(Tail(parts), c)

\* a < b on strings: lexicographic by code point, a proper prefix is smaller
RECURSIVE StrLess(_, _)
StrLess(a, b) ==
    IF Len(b) = 0 THEN FALSE
    ELSE IF Len(a) = 0 THEN TRUE
    ELSE IF a[1] # b[1] THEN Ord(a[1]) < Ord(b[1])
    ELSE StrLess(Tail(a), Tail(b))

\* int(s) for a string of digits
RECURSIVE ToInt(_)
ToInt(s) ==
    IF Len(s) = 0 THEN 0
    ELSE 10 * ToInt(SubSeq(s, 1, Len(s) - 1)) + DigitVal(s[Len(s)])

AllDigits(s) == Len(s) > 0 /\ \A i \in 1..Len(s) : IsDigit(s[i])

\* the truth value of a str | None: None and "" are false
Truthy(s) == s # None /\ s # <<>>

-----------------------------------------------------------------------------
(* Tracking methods *)

TRACKING_METHOD_VERSION == "version"
TRACKING_METHOD_BRANCH == "branch"
TRACKING_METHOD_COMMIT == "commit"
TRACKING_METHOD_BUILTIN == "builtin"

\* a PackageStatus built without a tracking method carries None
NoMethod == "None"

Methods ==
    {TRACKING_METHOD_VERSION, TRACKING_METHOD_BRANCH, TRACKING_METHOD_COMMIT,
     TRACKING_METHOD_BUILTIN, NoMethod}

-----------------------------------------------------------------------------
(* The collaborators of fullfills: normalize_version_tag and the           *)
(* semantic_version library (Version.coerce, Spec, Spec.__contains__).     *)

\* normalize_version_tag: "vX.Y.Z" becomes "X.Y.Z", other tags are unchanged
normalize_version_tag(tag) ==
    IF Len(tag) > 1 /\ tag[1] = "v" /\ IsDigit(tag[2])
    THEN Tail(tag)
    ELSE tag

\* the length of the run of digits s starts with
RECURSIVE DigitRun(_)
DigitRun(s) ==
    IF Len(s) > 0 /\ IsDigit(s[1]) THEN 1 + DigitRun(Tail(s)) ELSE 0

\* the length of the longest prefix of s matching \d+(\.\d+(\.\d+)?)?
BasePrefixLen(s) ==
    LET n1 == DigitRun(s)
        r1 == DropPrefix(s, n1)
        n2 == IF Len(r1) > 0 /\ r1[1] = "." THEN DigitRun(Tail(r1)) ELSE 0
        r2 == DropPrefix(r1, n2 + 1)
        n3 == IF n2 > 0 /\ Len(r2) > 0 /\ r2[1] = "." THEN DigitRun(Tail(r2)) ELSE 0
    IN  IF n1 = 0 THEN 0
        ELSE IF n2 = 0 THEN n1
        ELSE IF n3 = 0 THEN n1 + 1 + n2
        ELSE n1 + 1 + n2 + 1 + n3

\* the characters coerce keeps in the rest of a version; others become "-"
IsSemverChar(c) ==
    \/ c \in {"+", ".", "-"}
    \/ IsDigit(c)
    \/ (Ord("a") <= Ord(c) /\ Ord(c) <= Ord("z"))

\* whether the rest after the numeric base leaves a non-empty prerelease
HasPrerelease(rest) ==
    LET first == IF IsSemverChar(rest[1]) THEN rest[1] ELSE "-"
        body == IF first = "-" THEN Tail(rest) ELSE rest
    IN  /\ first \notin {"+", "."}
        /\ Len(body) > 0
        /\ body[1] # "+"

\* semver.Version.coerce(version_string): the version, or a ValueError when
\* the string has no leading numeric component. Missing minor and patch are
\* padded with 0; a build suffix takes no part in matching and is dropped.
Coerce(version_string) ==
    LET n == BasePrefixLen(version_string)
        nums == Split(SubSeq(version_string, 1, n), ".")
        comp(i) == IF i <= Len(nums) THEN ToInt(nums[i]) ELSE 0
        rest == DropPrefix(version_string, n)
    IN  IF n = 0
        THEN [ok |-> FALSE, exc |-> "ValueError"]
        ELSE [ok |-> TRUE,
              v |-> [major |-> comp(1), minor |-> comp(2), patch |-> comp(3),
                     pre |-> Len(rest) > 0 /\ HasPrerelease(rest)]]

Star == <<"*">>

\* the comparators of a clause of a simple spec
SpecOps == {"<", "<=", "", "=", "==", ">=", ">", "!=", "^", "~", "~="}

OpChars == {"<", "=", ">", "!", "^", "~"}

RECURSIVE OpRun(_)
OpRun(s) ==
    IF Len(s) > 0 /\ s[1] \in OpChars THEN 1 + OpRun(Tail(s)) ELSE 0

RECURSIVE Concat(_)
Concat(s) == IF Len(s) = 0 THEN "" ELSE s[1] \o Concat(Tail(s))

\* NUMBER of a clause: 0 or a number without leading zero
IsSpecNumber(s) == AllDigits(s) /\ (Len(s) = 1 \/ s[1] # "0")

Triple(a, b, c) == <<a, b, c>>

next_major(t) == Triple(t[1] + 1, 0, 0)
next_minor(t) == Triple(t[1], t[2] + 1, 0)
next_patch(t) == Triple(t[1], t[2], t[3] + 1)

Range(op, target) == [op |-> op, target |-> target]

AllOf(ranges) == [all |-> TRUE, ranges |-> ranges]
AnyOf(ranges) == [all |-> FALSE, ranges |-> ranges]

\* SimpleSpec.Parser.parse_block for clauses whose version is made of
\* numbers and "*" wildcards (the -prerelease / +build suffixes of a clause
\* are outside the modelled grammar): the clause, or a ValueError.
\* n is the number of components before the first missing or wildcard one.
ParseBlock(block) ==
    LET k == OpRun(block)
        prefix == Concat(SubSeq(block, 1, k))
        nums == Split(DropPrefix(block, k), ".")
        given(i) == i <= Len(nums) /\ nums[i] # Star
        n == IF ~given(1) THEN 0
             ELSE IF ~given(2) THEN 1
             ELSE IF ~given(3) THEN 2
             ELSE 3
        target == Triple(IF n >= 1 THEN ToInt(nums[1]) ELSE 0,
                         IF n >= 2 THEN ToInt(nums[2]) ELSE 0,
                         IF n >= 3 THEN ToInt(nums[3]) ELSE 0)
        high == IF n = 1 THEN next_major(target)
                ELSE IF n = 2 THEN next_minor(target)
                ELSE target
        between(lo, hi) == AllOf({Range(">=", lo), Range("<", hi)})
    IN  IF \/ prefix \notin SpecOps
           \/ Len(nums) > 3
           \/ \E i \in 1..Len(nums) : nums[i] # Star /\ ~IsSpecNumber(nums[i])
           \/ n = 0 /\ prefix \notin {"", "=", "==", ">="}
        THEN [ok |-> FALSE, exc |-> "ValueError"]
        ELSE [ok |-> TRUE, clause |->
              CASE n = 0 -> AllOf({Range(">=", target)})
                [] n > 0 /\ prefix = "^" ->
                     between(target,
                             IF target[1] # 0 THEN next_major(target)
                             ELSE IF target[2] # 0 THEN next_minor(target)
                             ELSE next_patch(target))
                [] n > 0 /\ prefix = "~" ->
                     between(target,
                             IF n = 1 THEN next_major(target) ELSE next_minor(target))
                [] n > 0 /\ prefix = "~=" ->
                     between(target,
                             IF n < 3 THEN next_major(target) ELSE next_minor(target))
                [] n > 0 /\ prefix \in {"", "=", "=="} ->
                     IF n < 3 THEN between(target, high)
                     ELSE AllOf({Range("==", target)})
                [] n > 0 /\ prefix = "!=" ->
                     IF n < 3 THEN AnyOf({Range("<", target), Range(">=", high)})
                     ELSE AllOf({Range("!=", target)})
                [] n > 0 /\ prefix = ">" ->
                     IF n < 3 THEN AllOf({Range(">=", high)})
                     ELSE AllOf({Range(">", target)})
                [] n > 0 /\ prefix = ">=" -> AllOf({Range(">=", target)})
                [] n > 0 /\ prefix = "<" -> AllOf({Range("<", target)})
                [] n > 0 /\ prefix = "<=" ->
                     IF n < 3 THEN AllOf({Range("<", high)})
                     ELSE AllOf({Range("<=", target)})]

\* semver.Spec(version_spec): the clauses of the comma-separated blocks, or
\* a ValueError when a block is no clause
SemverSpec(version_spec) ==
    LET blocks == Split(version_spec, ",")
        parsed == [i \in 1..Len(blocks) |-> ParseBlock(blocks[i])]
    IN  IF \E i \in 1..Len(blocks) : ~parsed[i].ok
        THEN [ok |-> FALSE, exc |-> "ValueError"]
        ELSE [ok |-> TRUE, clauses |-> {parsed[i].clause : i \in 1..Len(blocks)}]

\* a < b on (major, minor, patch)
TripleLess(a, b) ==
    \/ a[1] < b[1]
    \/ a[1] = b[1] /\ a[2] < b[2]
    \/ a[1] = b[1] /\ a[2] = b[2] /\ a[3] < b[3]

\* Range.match: a prerelease of x.y.z sorts before x.y.z, and is matched by
\* neither "< x.y.z" nor "!= x.y.z"
RangeMatch(r, v) ==
    LET xyz == Triple(v.major, v.minor, v.patch)
        t == r.target
    IN  CASE r.op = "==" -> ~v.pre /\ xyz = t
          [] r.op = "!=" -> xyz # t
          [] r.op = ">" -> TripleLess(t, xyz)
          [] r.op = ">=" -> TripleLess(t, xyz) \/ (~v.pre /\ xyz = t)
          [] r.op = "<" -> TripleLess(xyz, t)
          [] r.op = "<=" -> TripleLess(xyz, t) \/ xyz = t

ClauseMatch(c, v) ==
    IF c.all
    THEN \A r \in c.ranges : RangeMatch(r, v)
    ELSE \E r \in c.ranges : RangeMatch(r, v)

\* version in spec: every clause of the spec matches
SpecContains(spec, v) == \A c \in spec.clauses : ClauseMatch(c, v)

-----------------------------------------------------------------------------
(* PackageVersion *)

\* the version tags and branch names the objects are built with
VersionStrings ==
    {None,
     <<>>,  \* (empty)
     <<"v", "1", ".", "2", ".", "3">>,  \* v1.2.3
     <<"1", ".", "2", ".", "3">>,  \* 1.2.3
     <<"2", ".", "0">>,  \* 2.0
     <<"v", "0", ".", "1", "0", ".", "0">>,  \* v0.10.0
     <<"m", "a", "i", "n">>,  \* main
     <<"1", ".", "2", ".", "3", "-", "r", "c", "1">>}  \* 1.2.3-rc1

\* the version_spec arguments
SpecStrings ==
    {
     <<"*">>,  \* *
     <<">", "=", "1", ".", "0", ".", "0">>,  \* >=1.0.0
     <<">", "=", "1", ".", "0", ".", "0", ",", "<", "2", ".", "0", ".", "0">>,  \* >=1.0.0,<2.0.0
     <<">", "=", "2", ".", "0", ".", "0">>,  \* >=2.0.0
     <<"n", "o", "t", "-", "a", "-", "s", "p", "e", "c">>,  \* not-a-spec
     <<"b", "r", "a", "n", "c", "h", "=", "m", "a", "i", "n">>,  \* branch=main
     <<"=", "=", "1", ".", "2", ".", "3">>,  \* ==1.2.3
     <<"!", "=", "1", ".", "2">>,  \* !=1.2
     <<"<", "=", "1", ".", "2">>,  \* <=1.2
     <<"^", "0", ".", "1", "0", ".", "0">>,  \* ^0.10.0
     <<"~", "1">>,  \* ~1
     <<">", "1", ".", "2", ".", "3", ",", "<", "1">>,  \* >1.2.3,<1
     <<"<", "1", ".", "2", ".", "3">>,  \* <1.2.3
     <<>>}  \* (empty)

\* req_semver before its first computation (None) and after
NoSemver == [set |-> FALSE]
Memo(v) == [set |-> TRUE, v |-> v]

\* PackageVersion.__init__
PackageVersion(method, version) ==
    [method |-> method, version |-> version, req_semver |-> NoSemver]

\* the outcomes of a call: a returned (message, ok) pair or a raised exception
Return(msg, ok) == [kind |-> "return", msg |-> msg, ok |-> ok, exc |-> ""]
Raise(exc) == [kind |-> "raise", msg |-> <<>>, ok |-> FALSE, exc |-> exc]

BranchPrefix == <<"b", "r", "a", "n", "c", "h", "=">>

\* the messages fullfills formats
MsgCommit(version_spec) ==
    Lit("tracking method commit not compatible with \"") \o version_spec \o Lit("\"")
MsgBranch == Lit("tracking method branch and commit")
MsgBranchRequested(branch, method) ==
    Lit("branch ") \o branch \o Lit(" requested, but using method ") \o Lit(method)
MsgInvalidSpec(version_spec) ==
    Lit("invalid semver spec: \"") \o version_spec \o Lit("\"")
MsgNotIn(version, version_spec) ==
    version \o Lit(" not in ") \o version_spec

\* lines 194-197: the value req_semver gets on first use, or the exception
\* of the failed assertion / the failed coercion
ComputeSemver(version) ==
    IF ~Truthy(version)
    THEN [ok |-> FALSE, exc |-> "AssertionError"]
    ELSE Coerce(normalize_version_tag(version))

\* MatchSpec reporting the normalized version instead of the raw one
MatchSpecNormalizedMsg(o, req_semver, version_spec) ==
    LET semver_spec == SemverSpec(version_spec)
    IN  IF ~semver_spec.ok
        THEN Return(MsgInvalidSpec(version_spec), FALSE)
        ELSE IF SpecContains(semver_spec, req_semver)
        THEN Return(<<>>, TRUE)
        ELSE Return(MsgNotIn(normalize_version_tag(o.version), version_spec), FALSE)

\* lines 199-207: the match of the normalized version against the spec
MatchSpec(o, req_semver, version_spec) ==
    LET semver_spec == SemverSpec(version_spec)
    IN  IF ~semver_spec.ok
        THEN Return(MsgInvalidSpec(version_spec), FALSE)
        ELSE IF SpecContains(semver_spec, req_semver)
        THEN Return(<<>>, TRUE)
        ELSE Return(MsgNotIn(o.version, version_spec), FALSE)

\* EarlyReturn with the branch case "repaired": a branch-tracked object
\* accepts a request for its own branch
EarlyReturnBranchMatch(o, version_spec) ==
    IF version_spec = Star
    THEN [decided |-> TRUE, out |-> Return(<<>>, TRUE)]
    ELSE IF o.method = TRACKING_METHOD_COMMIT
    THEN [decided |-> TRUE, out |-> Return(MsgCommit(version_spec), FALSE)]
    ELSE IF o.method = TRACKING_METHOD_BRANCH
    THEN [decided |-> TRUE,
          out |-> IF version_spec = BranchPrefix \o o.version
                  THEN Return(<<>>, TRUE)
                  ELSE Return(MsgBranch, FALSE)]
    ELSE IF StartsWith(version_spec, BranchPrefix)
    THEN [decided |-> TRUE,
          out |-> Return(MsgBranchRequested(DropPrefix(version_spec, Len(BranchPrefix)),
                                            o.method), FALSE)]
    ELSE [decided |-> FALSE, out |-> Return(<<>>, FALSE)]

\* EarlyReturn with the wildcard tested after the tracking methods
EarlyReturnStarLate(o, version_spec) ==
    IF o.method = TRACKING_METHOD_COMMIT
    THEN [decided |-> TRUE, out |-> Return(MsgCommit(version_spec), FALSE)]
    ELSE IF o.method = TRACKING_METHOD_BRANCH
    THEN [decided |-> TRUE, out |-> Return(MsgBranch, FALSE)]
    ELSE IF version_spec = Star
    THEN [decided |-> TRUE, out |-> Return(<<>>, TRUE)]
    ELSE IF StartsWith(version_spec, BranchPrefix)
    THEN [decided |-> TRUE,
          out |-> Return(MsgBranchRequested(DropPrefix(version_spec, Len(BranchPrefix)),
                                            o.method), FALSE)]
    ELSE [decided |-> FALSE, out |-> Return(<<>>, FALSE)]

\* lines 177-192: the outcomes decided without a version comparison;
\* decided |-> FALSE when the call goes on to line 194
EarlyReturn(o, version_spec) ==
    IF version_spec = Star
    THEN [decided |-> TRUE, out |-> Return(<<>>, TRUE)]
    ELSE IF o.method = TRACKING_METHOD_COMMIT
    THEN [decided |-> TRUE, out |-> Return(MsgCommit(version_spec), FALSE)]
    ELSE IF o.method = TRACKING_METHOD_BRANCH
    THEN [decided |-> TRUE, out |-> Return(MsgBranch, FALSE)]
    ELSE IF StartsWith(version_spec, BranchPrefix)
    THEN [decided |-> TRUE,
          out |-> Return(MsgBranchRequested(DropPrefix(version_spec, Len(BranchPrefix)),
                                            o.method), FALSE)]
    ELSE [decided |-> FALSE, out |-> Return(<<>>, FALSE)]

\* PackageVersion.fullfills(version_spec) run to its end on object o: the
\* outcome and the req_semver field it leaves behind
fullfills(o, version_spec) ==
    LET early == EarlyReturn(o, version_spec)
        computed == ComputeSemver(o.version)
    IN  IF early.decided
        THEN [out |-> early.out, req_semver |-> o.req_semver]
        ELSE IF o.req_semver.set
        THEN [out |-> MatchSpec(o, o.req_semver.v, version_spec),
              req_semver |-> o.req_semver]
        ELSE IF ~computed.ok
        THEN [out |-> Raise(computed.exc), req_semver |-> o.req_semver]
        ELSE [out |-> MatchSpec(o, computed.v, version_spec),
              req_semver |-> Memo(computed.v)]

\* no call has been made on the object yet
NoCall == [spec |-> None, out |-> Return(<<>>, FALSE), before |-> NoSemver]

-----------------------------------------------------------------------------
(* Sequential use of one PackageVersion *)

\* PackageVersion(method, version): a fresh object replaces the current one
NewPackageVersion(method, version) ==
    /\ pv' = PackageVersion(method, version)
    /\ last' = NoCall
    /\ UNCHANGED <<thVars, pkVars>>

\* o.fullfills(version_spec), the whole call
Fullfills(version_spec) ==
    LET r == fullfills(pv, version_spec)
    IN  /\ pv' = [pv EXCEPT !.req_semver = r.req_semver]
        /\ last' = [spec |-> version_spec, out |-> r.out, before |-> pv.req_semver]
        /\ UNCHANGED <<thVars, pkVars>>

-----------------------------------------------------------------------------
(* Concurrent calls of fullfills on one shared PackageVersion.  A thread   *)
(* may be preempted between any two bytecodes; reads and writes of the     *)
(* attribute req_semver are the only accesses to shared mutable state.     *)

NThreads == 2

Threads == 1..NThreads

\* the specs the threads call with
ThreadSpecStrings ==
    {<<"*">>,
     <<">", "=", "1", ".", "0", ".", "0", ",", "<", "2", ".", "0", ".", "0">>,
     <<">", "=", "2", ".", "0", ".", "0">>,
     <<"n", "o", "t", "-", "a", "-", "s", "p", "e", "c">>}

NoLocal == [ok |-> FALSE, exc |-> ""]

\* thread t enters fullfills(version_spec)
ThreadCall(t, version_spec) ==
    /\ tpc[t] = "idle"
    /\ tspec' = [tspec EXCEPT ![t] = version_spec]
    /\ tpc' = [tpc EXCEPT ![t] = "entered"]
    /\ UNCHANGED <<pv, last, tlocal, tres, ncomputed, pkVars>>

\* lines 177-192: the early returns, which read no mutable field
ThreadEarly(t) ==
    /\ tpc[t] = "entered"
    /\ LET early == EarlyReturn(pv, tspec[t])
       IN  IF early.decided
           THEN /\ tres' = [tres EXCEPT ![t] = early.out]
                /\ tpc' = [tpc EXCEPT ![t] = "done"]
           ELSE /\ tres' = tres
                /\ tpc' = [tpc EXCEPT ![t] = "check"]
    /\ UNCHANGED <<pv, last, tspec, tlocal, ncomputed, pkVars>>

\* line 194: the read of self.req_semver and the test against None
ThreadCheck(t) ==
    /\ tpc[t] = "check"
    /\ tpc' = [tpc EXCEPT ![t] = IF pv.req_semver.set THEN "match" ELSE "compute"]
    /\ UNCHANGED <<pv, last, tspec, tlocal, tres, ncomputed, pkVars>>

\* lines 195-197, right-hand side: the assertion, the normalization and the
\* coercion, into a value local to the thread
ThreadCompute(t) ==
    /\ tpc[t] = "compute"
    /\ LET computed == ComputeSemver(pv.version)
       IN  /\ tlocal' = [tlocal EXCEPT ![t] = computed]
           /\ IF computed.ok
              THEN /\ tpc' = [tpc EXCEPT ![t] = "store"]
                   /\ tres' = tres
              ELSE /\ tpc' = [tpc EXCEPT ![t] = "done"]
                   /\ tres' = [tres EXCEPT ![t] = Raise(computed.exc)]
    /\ ncomputed' = ncomputed + 1
    /\ UNCHANGED <<pv, last, tspec, pkVars>>

\* StoredValue when the field is first filled with a blank Version that is
\* completed later
StoredValueBlank(t) == Memo([major |-> 0, minor |-> 0, patch |-> 0, pre |-> FALSE])

\* the value line 197 stores into self.req_semver
StoredValue(t) == Memo(tlocal[t].v)

\* line 197, the store into self.req_semver
ThreadStore(t) ==
    /\ tpc[t] = "store"
    /\ pv' = [pv EXCEPT !.req_semver = StoredValue(t)]
    /\ tpc' = [tpc EXCEPT ![t] = "match"]
    /\ UNCHANGED <<last, tspec, tlocal, tres, ncomputed, pkVars>>

\* lines 199-207: the spec is parsed and self.req_semver is read again
ThreadMatch(t) ==
    /\ tpc[t] = "match"
    /\ tres' = [tres EXCEPT ![t] = MatchSpec(pv, pv.req_semver.v, tspec[t])]
    /\ tpc' = [tpc EXCEPT ![t] = "done"]
    /\ UNCHANGED <<pv, last, tspec, tlocal, ncomputed, pkVars>>

-----------------------------------------------------------------------------
(* Specifications *)

NoPackages == <<>>
NoFs == [cwd |-> <<>>, links |-> {}, exists |-> {}, files |-> {}]
NoHashes == <<>>
NoProbe == [op |-> "none", args |-> [canonical |-> FALSE]]

IdlePkVars ==
    /\ pkgs = NoPackages
    /\ fs = NoFs
    /\ installed = {}
    /\ hashes = NoHashes
    /\ probe = NoProbe

IdleThVars ==
    /\ tpc = [t \in Threads |-> "idle"]
    /\ tspec = [t \in Threads |-> None]
    /\ tlocal = [t \in Threads |-> NoLocal]
    /\ tres = [t \in Threads |-> Return(<<>>, FALSE)]
    /\ ncomputed = 0

\* a PackageVersion as its constructor leaves it, before any call
Init ==
    /\ \E m \in Methods, v \in VersionStrings : pv = PackageVersion(m, v)
    /\ last = NoCall
    /\ IdleThVars
    /\ IdlePkVars

Next ==
    \/ \E m \in Methods, v \in VersionStrings : NewPackageVersion(m, v)
    \/ \E s \in SpecStrings : Fullfills(s)

Spec == Init /\ [][Next]_vars

\* the object shared by the threads
ThreadsInit == Init

ThreadsNext ==
    \/ \E t \in Threads, s \in ThreadSpecStrings : ThreadCall(t, s)
    \/ \E t \in Threads : ThreadEarly(t)
    \/ \E t \in Threads : ThreadCheck(t)
    \/ \E t \in Threads : ThreadCompute(t)
    \/ \E t \in Threads : ThreadStore(t)
    \/ \E t \in Threads : ThreadMatch(t)

SpecThreads == ThreadsInit /\ [][ThreadsNext]_vars

-----------------------------------------------------------------------------
(* Claims about PackageVersion.fullfills *)

Called == last.spec # None

\* the tag is exactly major.minor.patch
IsFullVersion(s) ==
    LET parts == Split(s, ".")
    IN  Len(parts) = 3 /\ \A i \in 1..3 : AllDigits(parts[i])

\* C1 (as claimed): every call of fullfills, whatever the tracking method,
\* the version (None and "" included) and the spec, returns a (message, ok)
\* pair and raises nothing, and a spec that does not parse gives ok = false.
C1_FullfillsTotal ==
    (Called /\ pv.method \in Methods \ {NoMethod}) =>
        /\ last.out.kind = "return"
        /\ (last.spec # Star /\ ~SemverSpec(last.spec).ok) => ~last.out.ok

\* C2: for a spec other than "*", the call returns ok = false when the
\* tracking method is commit, when it is branch (also for "branch=<name>"
\* with <name> the object's own branch), and when the spec starts with
\* "branch="; so ok = true with such a spec needs a method that is neither
\* commit nor branch and a spec that does not start with "branch=".
C2_NoMatchForCommitBranch ==
    (Called /\ last.spec # Star) =>
        /\ (\/ pv.method \in {TRACKING_METHOD_COMMIT, TRACKING_METHOD_BRANCH}
            \/ StartsWith(last.spec, BranchPrefix))
           => (last.out.kind = "return" /\ ~last.out.ok)
        /\ (last.out.kind = "return" /\ last.out.ok)
           => /\ pv.method \in Methods \ {TRACKING_METHOD_COMMIT, TRACKING_METHOD_BRANCH}
              /\ ~StartsWith(last.spec, BranchPrefix)

\* a branch-tracked object was asked for its own branch and said no
C2_Witness ==
    /\ pv.method = TRACKING_METHOD_BRANCH
    /\ pv.version # None
    /\ last.spec = BranchPrefix \o pv.version
    /\ last.out.kind = "return"
    /\ ~last.out.ok

\* C3: fullfills("*") returns ("", true) for every tracking method and
\* version, and leaves req_semver as it was (None on a fresh object).
C3_WildcardAlwaysMatches ==
    (Called /\ last.spec = Star) =>
        /\ last.out = Return(<<>>, TRUE)
        /\ pv.req_semver = last.before

\* "*" was accepted by a commit-tracked object without a version, whose
\* req_semver is still None
C3_Witness ==
    /\ last.spec = Star
    /\ pv.method = TRACKING_METHOD_COMMIT
    /\ pv.version = None
    /\ last.out.ok
    /\ ~pv.req_semver.set

\* the case C4 is about: version or builtin tracking, a major.minor.patch tag
C4_Case ==
    /\ Called
    /\ pv.method \in {TRACKING_METHOD_VERSION, TRACKING_METHOD_BUILTIN}
    /\ pv.version # None
    /\ IsFullVersion(normalize_version_tag(pv.version))

\* every clause of the parsed spec holds of the normalized version
C4_SatisfiesEveryClause ==
    \A c \in SemverSpec(last.spec).clauses :
        ClauseMatch(c, Coerce(normalize_version_tag(pv.version)).v)

\* C4 (as claimed): in that case a spec that parses gives ("", true) exactly
\* when every clause holds and ("<version> not in <spec>", false) otherwise,
\* and a spec that does not parse gives ("invalid semver spec: <spec>", false).
C4_AsClaimed ==
    C4_Case =>
        IF SemverSpec(last.spec).ok
        THEN last.out = IF C4_SatisfiesEveryClause
                        THEN Return(<<>>, TRUE)
                        ELSE Return(pv.version \o Lit(" not in ") \o last.spec, FALSE)
        ELSE ~StartsWith(last.spec, BranchPrefix) =>
               last.out = Return(Lit("invalid semver spec: ") \o last.spec, FALSE)

\* C4 (amended): as claimed for a spec that parses; a spec that does not
\* parse and does not start with "branch=" gives the message
\* 'invalid semver spec: "<spec>"', the spec between double quotes. The
\* cases of the specification's examples are stated on their own.
C4_MatchResult ==
    /\ C4_Case =>
          IF SemverSpec(last.spec).ok
          THEN last.out = IF C4_SatisfiesEveryClause
                          THEN Return(<<>>, TRUE)
                          ELSE Return(pv.version \o Lit(" not in ") \o last.spec, FALSE)
          ELSE ~StartsWith(last.spec, BranchPrefix) =>
                 last.out = Return(Lit("invalid semver spec: \"") \o last.spec
                                       \o Lit("\""), FALSE)
    /\ (C4_Case /\ pv.version = <<"v", "1", ".", "2", ".", "3">>) =>
          /\ last.spec = <<">", "=", "1", ".", "0", ".", "0", ",",
                           "<", "2", ".", "0", ".", "0">> => last.out.ok
          /\ last.spec = <<">", "=", "2", ".", "0", ".", "0">> => ~last.out.ok
          /\ last.spec = <<"=", "=", "1", ".", "2", ".", "3">> => last.out.ok
          /\ last.spec = <<"<", "1", ".", "2", ".", "3">> => ~last.out.ok
          /\ last.spec = <<">", "1", ".", "2", ".", "3", ",", "<", "1">> => ~last.out.ok

\* 0.10.0 fails the first of two clauses and passes the second: no match
C4_Witness ==
    /\ C4_Case
    /\ pv.version = <<"v", "0", ".", "1", "0", ".", "0">>
    /\ last.spec = <<">", "=", "1", ".", "0", ".", "0", ",",
                     "<", "2", ".", "0", ".", "0">>
    /\ last.out = Return(pv.version \o Lit(" not in ") \o last.spec, FALSE)

\* the outcome of the call of thread t when it runs alone on a fresh object
AloneResult(t) ==
    fullfills(PackageVersion(pv.method, pv.version), tspec[t]).out

\* C5: under every interleaving each finished call has the outcome it has
\* when run alone, and req_semver, once set, is the coerced normalization
\* of the object's version.
C5_RaceIsBenign ==
    /\ \A t \in Threads : tpc[t] = "done" => tres[t] = AloneResult(t)
    /\ pv.req_semver.set =>
          /\ Coerce(normalize_version_tag(pv.version)).ok
          /\ pv.req_semver = Memo(Coerce(normalize_version_tag(pv.version)).v)

\* two threads both found req_semver unset, both computed it, and both
\* calls finished, one of them with a match
C5_Witness ==
    /\ ncomputed >= 2
    /\ pv.req_semver.set
    /\ \A t \in Threads : tpc[t] = "done"
    /\ \E t \in Threads : tres[t].ok
    /\ \E t \in Threads : tres[t].kind = "return" /\ ~tres[t].ok

-----------------------------------------------------------------------------
(* The file system behind os.path.realpath and os.path.exists *)

Slash == "/"

\* "/" + "/".join(components)
AbsPath(components) == <<Slash>> \o Join(components, Slash)

\* the components of a path resolved left to right onto the resolved prefix
\* acc: "" and "." are dropped, ".." leaves the last directory, and a prefix
\* that is a symbolic link is replaced by the link's (already real) target
RECURSIVE Resolve(_, _, _)
Resolve(f, components, acc) ==
    IF Len(components) = 0 THEN acc
    ELSE LET c == components[1]
             rest == Tail(components)
             down == acc \o <<c>>
             hit == {l \in f.links : l.from = AbsPath(down)}
         IN  IF c = <<>> \/ c = <<".">>
             THEN Resolve(f, rest, acc)
             ELSE IF c = <<".", ".">>
             THEN Resolve(f, rest, IF Len(acc) = 0 THEN acc
                                   ELSE SubSeq(acc, 1, Len(acc) - 1))
             ELSE IF hit # {}
             THEN Resolve(f, rest, Tail(Split((CHOOSE l \in hit : TRUE).to, Slash)))
             ELSE Resolve(f, rest, down)

\* os.path.realpath(path) in file system f
Realpath(f, path) ==
    LET abs == IF Len(path) > 0 /\ path[1] = Slash
               THEN path
               ELSE f.cwd \o <<Slash>> \o path
    IN  AbsPath(Resolve(f, Split(abs, Slash), <<>>))

\* the directory at components acc is there: it is listed in f.exists, or a
\* listed directory or file lies below it
IsDir(f, acc) ==
    \E e \in f.exists \cup f.files :
        LET at == Tail(Split(e, Slash))
        IN  /\ Len(acc) <= Len(at)
            /\ SubSeq(at, 1, Len(acc)) = acc
            /\ e \in f.files => Len(acc) < Len(at)

\* a regular file is at components acc
IsFile(f, acc) == AbsPath(acc) \in f.files

\* stat() walking the components of a path from the file at acc: every
\* component, "", "." and ".." included, is looked up in a directory that is
\* there, ".." is the parent of the directory reached, a symbolic link is
\* followed to its target, and a name that is not there ends the walk
RECURSIVE Stat(_, _, _)
Stat(f, components, acc) ==
    IF Len(components) = 0 THEN TRUE
    ELSE IF ~IsDir(f, acc) THEN FALSE
    ELSE LET c == components[1]
             rest == Tail(components)
             down == acc \o <<c>>
             hit == {l \in f.links : l.from = AbsPath(down)}
             to == Tail(Split((CHOOSE l \in hit : TRUE).to, Slash))
         IN  IF c = <<>> \/ c = <<".">>
             THEN Stat(f, rest, acc)
             ELSE IF c = <<".", ".">>
             THEN Stat(f, rest, IF Len(acc) = 0 THEN acc
                                ELSE SubSeq(acc, 1, Len(acc) - 1))
             ELSE IF hit # {}
             THEN (IsDir(f, to) \/ IsFile(f, to)) /\ Stat(f, rest, to)
             ELSE (IsDir(f, down) \/ IsFile(f, down)) /\ Stat(f, rest, down)

\* os.path.exists(path) in file system f: stat() of the path as written
PathExists(f, path) ==
    /\ Len(path) > 0
    /\ Stat(f, Split(path, Slash),
            IF path[1] = Slash THEN <<>> ELSE Tail(Split(f.cwd, Slash)))

-----------------------------------------------------------------------------
(* Package identity *)

\* canonical_url removing one trailing slash only
canonical_url_one(f, path) ==
    LET url == IF Len(path) > 0 /\ path[Len(path)] = Slash
               THEN SubSeq(path, 1, Len(path) - 1)
               ELSE path
    IN  IF StartsWith(url, <<".">>) \/ StartsWith(url, <<Slash>>)
        THEN Realpath(f, url)
        ELSE url

\* canonical_url(path), lines 38-45
canonical_url(f, path) ==
    LET url == RStrip(path, Slash)
    IN  IF StartsWith(url, <<".">>) \/ StartsWith(url, <<Slash>>)
        THEN Realpath(f, url)
        ELSE url

\* name_from_path(path), lines 33-35
name_from_path(f, path) ==
    LET parts == Split(canonical_url(f, path), Slash)
    IN  parts[Len(parts)]

\* a dict of str -> str is a function on its keys
EmptyDict == [k \in {} |-> <<>>]

\* a constructor argument that was left out
Absent == [given |-> FALSE]
Given(x) == [given |-> TRUE, val |-> x]

\* the attribute name was never assigned
Unset == <<"Unset">>

\* Package.__init__, lines 452-478, in file system f
Package(f, git_url, source, directory, metadata, name, canonical) ==
    LET first == IF Truthy(name) THEN name ELSE Unset
        url == canonical_url(f, git_url)
    IN  [git_url |-> IF canonical THEN git_url
                     ELSE IF ~Truthy(source) /\ PathExists(f, git_url)
                     THEN Realpath(f, url)
                     ELSE url,
         source |-> source,
         directory |-> directory,
         metadata |-> IF metadata.given THEN metadata.val ELSE EmptyDict,
         name |-> IF canonical THEN first ELSE name_from_path(f, git_url)]

\* the outcome of a method: a returned value or a raised exception
Returned(v) == [kind |-> "return", val |-> v, exc |-> ""]
Raised(exc) == [kind |-> "raise", val |-> <<>>, exc |-> exc]

\* Package.name_with_source_directory, lines 549-560
name_with_source_directory(p) ==
    IF p.name = Unset THEN Raised("AttributeError")
    ELSE IF Truthy(p.directory)
    THEN Returned(p.directory \o <<Slash>> \o p.name)
    ELSE Returned(p.name)

\* Package.qualified_name, lines 562-572
qualified_name(p) ==
    IF Truthy(p.source)
    THEN LET n == name_with_source_directory(p)
         IN  IF n.kind = "raise" THEN n
             ELSE Returned(p.source \o <<Slash>> \o n.val)
    ELSE Returned(p.git_url)

\* Package.__str__, lines 480-481
PackageStr(p) == qualified_name(p)

\* the values hash() takes are told apart only by being equal or not
HashRange == 3
HashValues == 0..(HashRange - 1)

\* hash() of a str is randomised per process: the first hash of a string
\* may give any value, and every later one gives the same. The tables that
\* extend table t to the strings of S
Hashed(t, S) ==
    {[s \in DOMAIN t \cup S |-> IF s \in DOMAIN t THEN t[s] ELSE n[s]] :
        n \in [S \ DOMAIN t -> HashValues]}

\* hash(str) under table t
StrHash(t, str) == t[str]

\* the strings hashed by hash(p) for the Packages p of ps
HashedStrings(ps) ==
    {PackageStr(p).val : p \in {x \in ps : PackageStr(x).kind = "return"}}

\* Package.__hash__, lines 492-493, under table t
PackageHash(t, p) ==
    LET str == PackageStr(p)
    IN  IF str.kind = "raise" THEN str ELSE Returned(StrHash(t, str.val))

\* Package.__eq__ comparing the fields instead of the string form
PackageEqStructural(p, q) ==
    LET a == PackageStr(p)
        b == PackageStr(q)
    IN  IF a.kind = "raise" THEN a
        ELSE IF b.kind = "raise" THEN b
        ELSE Returned(p.git_url = q.git_url /\ p.name = q.name)

\* Package.__eq__, lines 495-496
PackageEq(p, q) ==
    LET a == PackageStr(p)
        b == PackageStr(q)
    IN  IF a.kind = "raise" THEN a
        ELSE IF b.kind = "raise" THEN b
        ELSE Returned(a.val = b.val)

\* Package.__lt__, lines 498-499
PackageLt(p, q) ==
    LET a == PackageStr(p)
        b == PackageStr(q)
    IN  IF a.kind = "raise" THEN a
        ELSE IF b.kind = "raise" THEN b
        ELSE Returned(StrLess(a.val, b.val))

\* the loop of lines 586-592: the k-th part from the right of path_parts
\* against the k-th part from the right of pkg_path_parts
RECURSIVE MatchFromRight(_, _, _)
MatchFromRight(path_parts, pkg_path_parts, k) ==
    IF k > Len(path_parts) THEN Returned(TRUE)
    ELSE IF k > Len(pkg_path_parts) THEN Raised("IndexError")
    ELSE IF path_parts[Len(path_parts) + 1 - k]
            # pkg_path_parts[Len(pkg_path_parts) + 1 - k]
    THEN Returned(FALSE)
    ELSE MatchFromRight(path_parts, pkg_path_parts, k + 1)

\* Package.matches_path, lines 574-597
matches_path(p, path) ==
    LET path_parts == Split(path, Slash)
        pkg_path == qualified_name(p)
    IN  IF Truthy(p.source)
        THEN IF pkg_path.kind = "raise" THEN pkg_path
             ELSE MatchFromRight(path_parts, Split(pkg_path.val, Slash), 1)
        ELSE IF Len(path_parts) = 1 /\ p.name = Unset
        THEN Raised("AttributeError")
        ELSE IF Len(path_parts) = 1 /\ path_parts[1] = p.name
        THEN Returned(TRUE)
        ELSE Returned(path = p.git_url)

-----------------------------------------------------------------------------
(* Inputs of the package operations *)

\* cwd /h; /h/foo and /r/bar are directories
FsPlain ==
    [cwd |-> <<"/", "h">>,
     links |-> {},
     exists |-> {<<"/", "h">>, <<"/", "h", "/", "f", "o", "o">>, <<"/", "r", "/", "b", "a", "r">>},
     files |-> {}]

\* cwd /h; /h/foo is a symbolic link to the directory /r/bar
FsLinked ==
    [cwd |-> <<"/", "h">>,
     links |-> {[from |-> <<"/", "h", "/", "f", "o", "o">>, to |-> <<"/", "r", "/", "b", "a", "r">>]},
     exists |-> {<<"/", "h">>, <<"/", "r", "/", "b", "a", "r">>},
     files |-> {}]

\* cwd /h; nothing else exists
FsBare ==
    [cwd |-> <<"/", "h">>,
     links |-> {},
     exists |-> {<<"/", "h">>},
     files |-> {}]

\* cwd /h; /h/foo is a regular file
FsFile ==
    [cwd |-> <<"/", "h">>,
     links |-> {},
     exists |-> {<<"/", "h">>},
     files |-> {<<"/", "h", "/", "f", "o", "o">>}]

FileSystems == {FsPlain, FsLinked, FsBare, FsFile}

\* the locators packages are built from
Locators ==
    {
     <<"u", "/", "f", "o", "o">>,  \* u/foo
     <<"u", "/", "f", "o", "o", "/">>,  \* u/foo/
     <<"u", "/", "f", "o", "o", "/", "/">>,  \* u/foo//
     <<"s", "/", "a", "/", "f", "o", "o">>,  \* s/a/foo
     <<"f", "o", "o">>,  \* foo
     <<"f", "o", "o", "/">>,  \* foo/
     <<"x", "/", ".", ".", "/", "f", "o", "o">>,  \* x/../foo
     <<".", "/", "f", "o", "o">>,  \* ./foo
     <<"/", "r", "/", "x", "/", ".", ".", "/", "b", "a", "r", "/">>}  \* /r/x/../bar/

SourceNames ==
    {
     <<>>,  \* (empty)
     <<"s">>}  \* s

Directories ==
    {
     <<>>,  \* (empty)
     <<"a">>}  \* a

\* the name argument: left out (None), empty, or a name
NameArgs ==
    {None,
     <<>>,  \* (empty)
     <<"f", "o", "o">>,  \* foo
     <<"b", "a", "r">>}  \* bar

MetadataArgs ==
    {Absent,
     Given([k \in {<<"d", "e", "p", "e", "n", "d", "s">>} |-> <<"z", "e", "e", "k", " ", "*">>])}

\* the paths matches_path is asked about
Paths ==
    {
     <<"f", "o", "o">>,  \* foo
     <<"a", "/", "f", "o", "o">>,  \* a/foo
     <<"s", "/", "a", "/", "f", "o", "o">>,  \* s/a/foo
     <<"s", "/", "f", "o", "o">>,  \* s/foo
     <<"b", "/", "f", "o", "o">>,  \* b/foo
     <<"x", "/", "s", "/", "a", "/", "f", "o", "o">>,  \* x/s/a/foo
     <<"x", "/", "s", "/", "f", "o", "o">>,  \* x/s/foo
     <<"u", "/", "f", "o", "o">>,  \* u/foo
     <<"x", "/", "y", "/", "z", "/", "w">>,  \* x/y/z/w
     <<>>}  \* (empty)

\* the constructor's arguments, remembered beside the object they built
Args(git_url, source, directory, metadata, name, canonical) ==
    [git_url |-> git_url, source |-> source, directory |-> directory,
     metadata |-> metadata, name |-> name, canonical |-> canonical]

NoArgs == Args(<<>>, <<>>, <<>>, Absent, None, FALSE)

-----------------------------------------------------------------------------
(* Operations on one Package *)

\* p = Package(git_url, source, directory, metadata, name, canonical), the
\* object the later queries are made on
NewPackage(git_url, source, directory, metadata, name, canonical) ==
    /\ pkgs = NoPackages
    /\ pkgs' = <<Package(fs, git_url, source, directory, metadata, name, canonical)>>
    /\ probe' = [op |-> "Package",
                 args |-> Args(git_url, source, directory, metadata, name, canonical)]
    /\ UNCHANGED <<fs, installed, hashes, pvVars, thVars>>

\* str(p) and p.qualified_name()
QualifiedName ==
    /\ Len(pkgs) > 0
    /\ probe' = [op |-> "qualified_name", args |-> probe.args,
                 out |-> qualified_name(pkgs[1]), str |-> PackageStr(pkgs[1])]
    /\ UNCHANGED <<pkgs, fs, installed, hashes, pvVars, thVars>>

\* p.matches_path(path)
MatchesPath(path) ==
    /\ Len(pkgs) > 0
    /\ probe' = [op |-> "matches_path", args |-> probe.args, path |-> path,
                 out |-> matches_path(pkgs[1], path)]
    /\ UNCHANGED <<pkgs, fs, installed, hashes, pvVars, thVars>>

\* canonical_url(locator) and name_from_path(locator)
CanonicalUrl(locator) ==
    /\ probe' = [op |-> "canonical_url", args |-> probe.args, locator |-> locator,
                 url |-> canonical_url(fs, locator),
                 name |-> name_from_path(fs, locator)]
    /\ UNCHANGED <<pkgs, fs, installed, hashes, pvVars, thVars>>

IdlePvVars ==
    /\ pv = PackageVersion(NoMethod, None)
    /\ last = NoCall

PackageInit ==
    /\ fs \in FileSystems
    /\ pkgs = NoPackages
    /\ installed = {}
    /\ hashes = NoHashes
    /\ probe = [op |-> "none", args |-> NoArgs]
    /\ IdlePvVars
    /\ IdleThVars

PackageNext ==
    \/ \E u \in Locators, src \in SourceNames, d \in Directories,
          m \in MetadataArgs, n \in NameArgs, c \in BOOLEAN :
          NewPackage(u, src, d, m, n, c)
    \/ QualifiedName
    \/ \E path \in Paths : MatchesPath(path)
    \/ \E l \in Locators : CanonicalUrl(l)

SpecPackage == PackageInit /\ [][PackageNext]_vars

-----------------------------------------------------------------------------
(* Claims about one Package *)

\* a is a contiguous suffix of b
IsSuffix(a, b) ==
    /\ Len(a) <= Len(b)
    /\ SubSeq(b, Len(b) - Len(a) + 1, Len(b)) = a

LastSegment(url) == Split(url, Slash)[Len(Split(url, Slash))]

\* C8 (as claimed): for a Package with a source (and a name),
\* matches_path(path) returns true exactly when the components of path are
\* a suffix of the components of qualified_name(), returns false for every
\* other path, a longer one included, and raises nothing.
C8_MatchesPathIsSuffixTest ==
    (/\ probe.op = "matches_path"
     /\ Truthy(pkgs[1].source)
     /\ pkgs[1].name # Unset)
    => probe.out = Returned(IsSuffix(Split(probe.path, Slash),
                                     Split(qualified_name(pkgs[1]).val, Slash)))

\* C9: every constructed Package has a name, so that qualified_name() and
\* matches_path() are defined on it; with canonical, git_url is the caller's
\* value and a name the caller supplied is the Package's name; without
\* canonical and without a supplied name, the name is the last segment of
\* the canonicalized git_url. (What the claim says of a name supplied
\* without canonical is left out here: line 478 replaces such a name by the
\* last segment, as the class docstring describes.)
C9_EveryPackageHasName ==
    probe.op = "Package" =>
        LET a == probe.args
            p == pkgs[1]
        IN  /\ (~a.canonical /\ ~Truthy(a.name)) =>
                 p.name = LastSegment(canonical_url(fs, a.git_url))
            /\ a.canonical => p.git_url = a.git_url
            /\ (a.canonical /\ a.name # None) => p.name = a.name
            /\ p.name # Unset
            /\ qualified_name(p).kind = "return"
            /\ \A path \in Paths : matches_path(p, path).exc # "AttributeError"

\* the case C10 is about: a locator that begins with neither "." nor "/"
C10_Case ==
    /\ probe.op = "canonical_url"
    /\ ~StartsWith(probe.locator, <<".">>)
    /\ ~StartsWith(probe.locator, <<Slash>>)

\* C10 (as claimed): canonical_url removes exactly one trailing "/" when the
\* locator ends with one and changes nothing otherwise, and name_from_path
\* is the last segment of that result.
C10_AsClaimed ==
    C10_Case =>
        LET l == probe.locator
        IN  /\ probe.url = IF Len(l) > 0 /\ l[Len(l)] = Slash
                           THEN SubSeq(l, 1, Len(l) - 1)
                           ELSE l
            /\ probe.name = LastSegment(probe.url)

\* C10 (amended): canonical_url removes every trailing "/" (the result is
\* the longest prefix of the locator that does not end in "/") and
\* name_from_path is the last segment of that result.
C10_StripsEveryTrailingSlash ==
    C10_Case =>
        LET l == probe.locator
        IN  /\ \E k \in 0..Len(l) :
                  /\ probe.url = SubSeq(l, 1, k)
                  /\ \A i \in (k + 1)..Len(l) : l[i] = Slash
                  /\ (k = 0 \/ l[k] # Slash)
            /\ probe.name = LastSegment(probe.url)

\* "u/foo//" became "u/foo", named foo
C10_Witness ==
    /\ C10_Case
    /\ probe.locator = <<"u", "/", "f", "o", "o", "/", "/">>
    /\ probe.url = <<"u", "/", "f", "o", "o">>
    /\ probe.name = <<"f", "o", "o">>

-----------------------------------------------------------------------------
(* Two Packages compared *)

CompareLocators ==
    {
     <<"u", "/", "f", "o", "o">>,  \* u/foo
     <<"s", "/", "a", "/", "f", "o", "o">>,  \* s/a/foo
     <<"s", "/", "b">>,  \* s/b
     <<"f", "o", "o">>}  \* foo

CompareNames ==
    {None,
     <<"f", "o", "o">>,  \* foo
     <<"b">>}  \* b

\* one more Package(...) beside the ones built before
AddPackage(git_url, source, directory, metadata, name, canonical) ==
    /\ Len(pkgs) < 2
    /\ pkgs' = Append(pkgs, Package(fs, git_url, source, directory, metadata,
                                    name, canonical))
    /\ probe' = [op |-> "Package", args |-> NoArgs]
    /\ UNCHANGED <<fs, installed, hashes, pvVars, thVars>>

\* str(p), str(q), p == q, p < q, hash(p), hash(q) for the two Packages
Compare ==
    /\ Len(pkgs) = 2
    /\ \E t \in Hashed(hashes, HashedStrings({pkgs[1], pkgs[2]})) :
          /\ hashes' = t
          /\ probe' = [op |-> "compare", args |-> NoArgs,
                       str |-> <<PackageStr(pkgs[1]), PackageStr(pkgs[2])>>,
                       qn |-> <<qualified_name(pkgs[1]), qualified_name(pkgs[2])>>,
                       eq |-> PackageEq(pkgs[1], pkgs[2]),
                       lt |-> PackageLt(pkgs[1], pkgs[2]),
                       hash |-> <<PackageHash(t, pkgs[1]), PackageHash(t, pkgs[2])>>]
    /\ UNCHANGED <<pkgs, fs, installed, pvVars, thVars>>

CompareNext ==
    \/ \E u \in CompareLocators, src \in SourceNames, d \in Directories,
          m \in MetadataArgs, n \in CompareNames, c \in BOOLEAN :
          AddPackage(u, src, d, m, n, c)
    \/ Compare

SpecCompare == PackageInit /\ [][CompareNext]_vars

\* a sorts before b: they agree on the first k characters, and there a ends
\* or carries the smaller character
LexLess(a, b) ==
    \E k \in 0..Len(a) :
        /\ k <= Len(b)
        /\ SubSeq(a, 1, k) = SubSeq(b, 1, k)
        /\ \/ (k = Len(a) /\ k < Len(b))
           \/ (k < Len(a) /\ k < Len(b) /\ Ord(a[k + 1]) < Ord(b[k + 1]))

\* C6: str(p) is p.qualified_name(); for two Packages whose qualified names
\* are defined, p == q exactly when the qualified names are equal, p < q
\* exactly when p's is lexicographically smaller, and equal Packages have
\* equal hashes, whatever their git_url, directory, name and metadata.
C6_IdentityIsQualifiedName ==
    probe.op = "compare" =>
        /\ probe.str = probe.qn
        /\ (probe.qn[1].kind = "return" /\ probe.qn[2].kind = "return") =>
              /\ probe.eq = Returned(probe.qn[1].val = probe.qn[2].val)
              /\ probe.lt = Returned(LexLess(probe.qn[1].val, probe.qn[2].val))
              /\ probe.eq.val => probe.hash[1] = probe.hash[2]

\* two Packages that differ in git_url, directory, name and metadata
\* compared equal
C6_Witness ==
    /\ probe.op = "compare"
    /\ probe.eq = Returned(TRUE)
    /\ pkgs[1].git_url # pkgs[2].git_url
    /\ pkgs[1].directory # pkgs[2].directory
    /\ pkgs[1].metadata # pkgs[2].metadata
    /\ pkgs[1].name # pkgs[2].name

-----------------------------------------------------------------------------
(* InstalledPackage and sets of them *)

\* PackageStatus.__init__, lines 279-293
PackageStatus(is_loaded, is_pinned, is_outdated, tracking_method, current_version, current_hash) ==
    [is_loaded |-> is_loaded, is_pinned |-> is_pinned, is_outdated |-> is_outdated,
     tracking_method |-> tracking_method, current_version |-> current_version,
     current_hash |-> current_hash]

Statuses ==
    {PackageStatus(FALSE, FALSE, FALSE, NoMethod, None, None),
     PackageStatus(TRUE, FALSE, TRUE, TRACKING_METHOD_VERSION,
                   <<"1", ".", "2", ".", "3">>, <<"a", "b", "c">>)}

InstalledLocators ==
    {
     <<"u", "/", "f", "o", "o">>,  \* u/foo
     <<"s", "/", "f", "o", "o">>}  \* s/foo

InstalledNames ==
    {None,
     <<"f", "o", "o">>}  \* foo

\* InstalledPackage.__init__, lines 220-222
InstalledPackage(package, status) == [package |-> package, status |-> status]

\* InstalledPackage.__hash__, lines 227-228
InstalledHash(t, a) == PackageHash(t, a.package)

\* InstalledPackage.__eq__ taking the status into account
InstalledEqWithStatus(a, b) ==
    LET x == PackageStr(a.package)
        y == PackageStr(b.package)
    IN  IF x.kind = "raise" THEN x
        ELSE IF y.kind = "raise" THEN y
        ELSE Returned(x.val = y.val /\ a.status = b.status)

\* InstalledPackage.__eq__, lines 230-233
InstalledEq(a, b) ==
    LET x == PackageStr(a.package)
        y == PackageStr(b.package)
    IN  IF x.kind = "raise" THEN x
        ELSE IF y.kind = "raise" THEN y
        ELSE Returned(x.val = y.val)

\* InstalledPackage.__lt__, lines 235-238: the Package is compared with the
\* string form of the other Package
InstalledLt(a, b) ==
    LET y == PackageStr(b.package)
        x == PackageStr(a.package)
    IN  IF y.kind = "raise" THEN y
        ELSE IF x.kind = "raise" THEN x
        ELSE Returned(StrLess(x.val, y.val))

\* set.add(x): x is hashed, then compared with the members of equal hash;
\* it is added unless one of them equals it; t holds the hash of x and the
\* hashes the members were stored under
SetAdd(t, members, x) ==
    LET h == InstalledHash(t, x)
    IN  IF h.kind = "raise" THEN [out |-> h, members |-> members]
        ELSE IF \E e \in members :
                   InstalledHash(t, e) = h /\ (e = x \/ InstalledEq(e, x).val)
        THEN [out |-> Returned(FALSE), members |-> members]
        ELSE [out |-> Returned(TRUE), members |-> members \cup {x}]

\* installed.add(InstalledPackage(Package(...), status))
Install(git_url, source, name, canonical, status) ==
    LET x == InstalledPackage(
                 Package(fs, git_url, source, <<>>, Absent, name, canonical), status)
    IN  /\ \E t \in Hashed(hashes, HashedStrings({x.package})) :
              LET r == SetAdd(t, installed, x)
              IN  /\ hashes' = t
                  /\ installed' = r.members
                  /\ probe' = [op |-> "add", args |-> NoArgs, x |-> x, out |-> r.out]
        /\ UNCHANGED <<pkgs, fs, pvVars, thVars>>

\* the last InstalledPackage built, compared with a member of the set
CompareInstalled(e) ==
    /\ probe.op \in {"add", "compared"}
    /\ e \in installed
    /\ \E t \in Hashed(hashes, HashedStrings({probe.x.package, e.package})) :
          /\ hashes' = t
          /\ probe' = [op |-> "compared", args |-> NoArgs, x |-> probe.x, e |-> e,
                       eq |-> InstalledEq(probe.x, e),
                       lt |-> InstalledLt(probe.x, e),
                       hash |-> <<InstalledHash(t, probe.x), InstalledHash(t, e)>>]
    /\ UNCHANGED <<pkgs, fs, installed, pvVars, thVars>>

InstalledInit ==
    /\ fs = FsPlain
    /\ pkgs = NoPackages
    /\ installed = {}
    /\ hashes = NoHashes
    /\ probe = [op |-> "none", args |-> NoArgs]
    /\ IdlePvVars
    /\ IdleThVars

InstalledNext ==
    \/ \E u \in InstalledLocators, src \in SourceNames, n \in InstalledNames,
          c \in BOOLEAN, st \in Statuses : Install(u, src, n, c, st)
    \/ \E e \in installed : CompareInstalled(e)

SpecInstalled == InstalledInit /\ [][InstalledNext]_vars

\* C7: equality, hash and order of InstalledPackage values follow the
\* qualified names of their Packages and never the status: two values whose
\* qualified names are defined are equal (with equal hashes) exactly when
\* the names are equal, a < b exactly when a's name is lexicographically
\* smaller, and a set of them never holds two members of one qualified name.
C7_InstalledIdentityIgnoresStatus ==
    /\ probe.op = "compared" =>
          LET a == qualified_name(probe.x.package)
              b == qualified_name(probe.e.package)
          IN  (a.kind = "return" /\ b.kind = "return") =>
                 /\ probe.eq = Returned(a.val = b.val)
                 /\ probe.lt = Returned(LexLess(a.val, b.val))
                 /\ (a.val = b.val) => probe.hash[1] = probe.hash[2]
    /\ \A a, b \in installed :
          qualified_name(a.package) = qualified_name(b.package) => a = b

\* an InstalledPackage was refused by a set of two members because a member
\* of the same qualified name and another status was there, and compared
\* equal to that member
C7_Witness ==
    /\ probe.op = "compared"
    /\ probe.eq = Returned(TRUE)
    /\ probe.x.status # probe.e.status
    /\ probe.x.package # probe.e.package
    /\ probe.x \notin installed
    /\ Cardinality(installed) >= 2

-----------------------------------------------------------------------------
(* dependencies: the dependency field of a metadata dict *)

\* the characters str.split() with no argument separates on: the 29
\* characters for which str.isspace() holds, U+0009-U+000D, U+001C-U+0020,
\* U+0085, U+00A0, U+1680, U+2000-U+200A, U+2028, U+2029, U+202F, U+205F and
\* U+3000; a character above U+00A0 is written as its escape
Whitespace ==
    {"\t", "\n", "", "\f", "\r", "", "", "", "", " ",
     "", " ", "\\u1680",
     "\\u2000", "\\u2001", "\\u2002", "\\u2003", "\\u2004", "\\u2005", "\\u2006", "\\u2007",
     "\\u2008", "\\u2009", "\\u200a", "\\u2028", "\\u2029", "\\u202f", "\\u205f", "\\u3000"}

\* str.split() with no argument, line 146: the maximal runs of characters
\* that are not whitespace, in order; word is the run being read
RECURSIVE SplitWhitespace(_, _, _)
SplitWhitespace(s, word, parts) ==
    LET closed == IF word = <<>> THEN parts ELSE Append(parts, word)
    IN  IF s = <<>> THEN closed
        ELSE IF Head(s) \in Whitespace
        THEN SplitWhitespace(Tail(s), <<>>, closed)
        ELSE SplitWhitespace(Tail(s), Append(word, Head(s)), parts)

\* parts[start::2], lines 147-148, start counted from 0
EveryOther(parts, start) ==
    [i \in 1..((IF Len(parts) > start THEN Len(parts) - start + 1 ELSE 0) \div 2)
       |-> parts[start + 2 * (i - 1) + 1]]

\* rval[k] = v, line 155
Put(rval, k, v) ==
    [x \in DOMAIN rval \cup {k} |-> IF x = k THEN v ELSE rval[x]]

\* the loop of lines 153-155 from its i-th round on
RECURSIVE Bind(_, _, _, _)
Bind(keys, values, i, rval) ==
    IF i > Len(keys) THEN rval
    ELSE Bind(keys, values, i + 1,
              IF i <= Len(values) THEN Put(rval, keys[i], values[i]) ELSE rval)

\* what dependencies returns: a dict, or None
Dict(d) == [none |-> FALSE, dict |-> d]
NoDict == [none |-> TRUE]

\* dependencies without the test of lines 150-151
dependencies_partial(metadata_dict, field) ==
    IF field \notin DOMAIN metadata_dict THEN Dict(EmptyDict)
    ELSE LET parts == SplitWhitespace(metadata_dict[field], <<>>, <<>>)
             keys == EveryOther(parts, 0)
             values == EveryOther(parts, 1)
         IN  Dict(Bind(keys, values, 1, EmptyDict))

\* dependencies(metadata_dict, field), lines 126-157
dependencies(metadata_dict, field) ==
    IF field \notin DOMAIN metadata_dict THEN Dict(EmptyDict)
    ELSE LET parts == SplitWhitespace(metadata_dict[field], <<>>, <<>>)
             keys == EveryOther(parts, 0)
             values == EveryOther(parts, 1)
         IN  IF Len(keys) # Len(values) THEN NoDict
             ELSE Dict(Bind(keys, values, 1, EmptyDict))

\* the dependency strings of the metadata dicts:
\*   ""
\*   " "
\*   "zeek"
\*   "zeek >=4.0.0 foo *"
\*   "zeek >=4.0.0 foo"
\*   "foo 1 foo 2"
\*   "  zeek\t>=4.0.0\n"
\*   "zkg *"
\*   "zkg >=2.0 zeek * foo"
\*   "a b c d e f"
\*   "foo * bar * foo 2"
\*   "zeek zkg"
\*   "k\rv"
\*   "k\x0cv"
\*   "a\r\nb c"
\*   "zeek\xa0*\u2003foo"
\*   "k\x0bv\x1cx\x85y"
DepStrings ==
    {<<>>,
     <<" ">>,
     <<"z", "e", "e", "k">>,
     <<"z", "e", "e", "k", " ", ">", "=", "4", ".", "0", ".", "0", " ", "f", "o", "o", " ", "*">>,
     <<"z", "e", "e", "k", " ", ">", "=", "4", ".", "0", ".", "0", " ", "f", "o", "o">>,
     <<"f", "o", "o", " ", "1", " ", "f", "o", "o", " ", "2">>,
     <<" ", " ", "z", "e", "e", "k", "\t", ">", "=", "4", ".", "0", ".", "0", "\n">>,
     <<"z", "k", "g", " ", "*">>,
     <<"z", "k", "g", " ", ">", "=", "2", ".", "0", " ", "z", "e", "e", "k", " ", "*", " ", "f", "o", "o">>,
     <<"a", " ", "b", " ", "c", " ", "d", " ", "e", " ", "f">>,
     <<"f", "o", "o", " ", "*", " ", "b", "a", "r", " ", "*", " ", "f", "o", "o", " ", "2">>,
     <<"z", "e", "e", "k", " ", "z", "k", "g">>,
     <<"k", "\r", "v">>,
     <<"k", "\f", "v">>,
     <<"a", "\r", "\n", "b", " ", "c">>,
     <<"z", "e", "e", "k", " ", "*", "\\u2003", "f", "o", "o">>,
     <<"k", "", "v", "", "x", "", "y">>}

Depends == <<"d", "e", "p", "e", "n", "d", "s">>
Suggests == <<"s", "u", "g", "g", "e", "s", "t", "s">>
ExternalDepends == <<"e", "x", "t", "e", "r", "n", "a", "l", "_", "d", "e", "p", "e", "n", "d", "s">>

\* the fields a metadata dict holds, and the fields asked for
DepFields == {Depends, Suggests}
AskedFields == {Depends, Suggests, ExternalDepends}

\* metadata dicts of no field, of one field, and of two fields
DepMetadatas ==
    {EmptyDict}
    \cup {[k \in {f} |-> s] : f \in DepFields, s \in DepStrings}
    \cup {[k \in DepFields |-> IF k = Depends THEN s ELSE <<"z", "k", "g", " ", "*">>] :
            s \in DepStrings}

\* p.dependencies(field), lines 524-536: dependencies(self.metadata, field)
Dependencies(field) ==
    /\ Len(pkgs) > 0
    /\ probe' = [op |-> "dependencies", args |-> probe.args, field |-> field,
                 metadata |-> pkgs[1].metadata,
                 out |-> dependencies(pkgs[1].metadata, field)]
    /\ UNCHANGED <<pkgs, fs, installed, hashes, pvVars, thVars>>

DependenciesNext ==
    \/ \E md \in DepMetadatas :
          NewPackage(<<"f", "o", "o">>, <<>>, <<>>, Given(md), None, FALSE)
    \/ \E field \in AskedFields : Dependencies(field)

SpecDependencies == PackageInit /\ [][DependenciesNext]_vars

\* the positions of s at which a maximal run of non-whitespace characters
\* begins: the tokens of s
TokenStarts(s) ==
    {i \in 1..Len(s) : s[i] \notin Whitespace /\ (i = 1 \/ s[i - 1] \in Whitespace)}

TokenCount(s) == Cardinality(TokenStarts(s))

\* the token of s at position k, counted from 0
Token(s, k) ==
    LET i == CHOOSE i \in TokenStarts(s) :
                 Cardinality({j \in TokenStarts(s) : j < i}) = k
        e == CHOOSE e \in i..Len(s) :
                 /\ \A x \in i..e : s[x] \notin Whitespace
                 /\ e = Len(s) \/ s[e + 1] \in Whitespace
    IN  SubSeq(s, i, e)

\* the even positions of the tokens of s
EvenPositions(s) == {k \in 0..(TokenCount(s) - 1) : k % 2 = 0}

\* the last even position at which key stands in s
LastPosition(s, key) ==
    CHOOSE k \in EvenPositions(s) :
        /\ Token(s, k) = key
        /\ \A j \in EvenPositions(s) : Token(s, j) = key => j <= k

\* an absent field gives the empty map, an odd token count gives None, an
\* even count gives a map whose keys are the tokens at even positions, and
\* the metadata dict is the one the call was given; the key at position k is
\* bound to the token after k, or after the last even position the key stands
\* at when latest is TRUE
DependenciesOutcome(latest) ==
    probe.op = "dependencies" =>
       LET md == probe.metadata
           present == probe.field \in DOMAIN md
           s == md[probe.field]
           at(k) == IF latest THEN LastPosition(s, Token(s, k)) ELSE k
       IN  /\ ~present => ~probe.out.none /\ DOMAIN probe.out.dict = {}
           /\ (present /\ TokenCount(s) % 2 = 1) => probe.out.none
           /\ (present /\ TokenCount(s) % 2 = 0) =>
                 /\ ~probe.out.none
                 /\ DOMAIN probe.out.dict = {Token(s, k) : k \in EvenPositions(s)}
                 /\ \A k \in EvenPositions(s) :
                       probe.out.dict[Token(s, k)] = Token(s, at(k) + 1)
           /\ pkgs[1].metadata = md

\* C11 as the claim states it: with an even token count every token at an
\* even position is bound to the token immediately following it
C11_AsClaimed == DependenciesOutcome(FALSE)

\* C11: dependencies has three outcomes: the empty map when the field is
\* absent, None when the field holds an odd number of whitespace-separated
\* tokens, and otherwise a map whose keys are the tokens at even positions,
\* each bound to the token that follows its last even-position occurrence
\* (a name given twice keeps its last requirement); zeek and zkg are keys
\* like any other and the metadata dict is unchanged.
C11_ThreeOutcomes == DependenciesOutcome(TRUE)

\* a field naming foo twice was read: the map binds foo to the second
\* requirement, and zeek next to it would be a key like foo
C11_Witness ==
    /\ probe.op = "dependencies"
    /\ probe.field \in DOMAIN probe.metadata
    /\ probe.metadata[probe.field] = <<"f", "o", "o", " ", "1", " ", "f", "o", "o", " ", "2">>
    /\ ~probe.out.none
    /\ probe.out.dict = [k \in {<<"f", "o", "o">>} |-> <<"2">>]

-----------------------------------------------------------------------------
(* PackageInfo and the built-in package factory *)

\* lines 24-25
BUILTIN_SOURCE == <<"z", "e", "e", "k", "-", "b", "u", "i", "l", "t", "i", "n">>
BUILTIN_SCHEME == <<"z", "e", "e", "k", "-", "b", "u", "i", "l", "t", "i", "n", ":", "/", "/">>

\* PackageInfo.__init__, lines 332-352; metadata and versions are Absent when
\* the caller leaves them None
PackageInfo(package, status, metadata, versions, metadata_version, invalid_reason, version_type, metadata_file, default_branch) ==
    [package |-> package,
     status |-> status,
     metadata |-> IF metadata.given THEN metadata.val ELSE EmptyDict,
     versions |-> IF versions.given THEN versions.val ELSE <<>>,
     metadata_version |-> metadata_version,
     version_type |-> version_type,
     invalid_reason |-> invalid_reason,
     metadata_file |-> metadata_file,
     default_branch |-> default_branch]

\* PackageInfo.best_version, lines 398-408
best_version(info) ==
    IF info.versions # <<>> THEN Returned(info.versions[Len(info.versions)])
    ELSE IF Truthy(info.default_branch) THEN Returned(info.default_branch)
    ELSE Raised("AssertionError")

\* Package.is_builtin, lines 489-490
PackageIsBuiltin(p) == StartsWith(p.git_url, BUILTIN_SCHEME)

\* PackageInfo.is_builtin, lines 410-414; a Package object is always truthy
is_builtin(info) == PackageIsBuiltin(info.package)

\* make_builtin_package(name, current_version, current_hash), lines 600-631,
\* in file system f
make_builtin_package(f, name, current_version, current_hash) ==
    LET package == Package(f, BUILTIN_SCHEME \o name, BUILTIN_SOURCE, <<>>,
                           Absent, name, TRUE)
        status == PackageStatus(TRUE, TRUE, FALSE, TRACKING_METHOD_BUILTIN,
                                current_version, current_hash)
    IN  PackageInfo(package, status, Absent, Given(<<current_version>>),
                    <<>>, <<>>, <<>>, None, None)

\* the names, versions and hashes of zkg.provides entries:
\*   "", "foo", "a/b", "./foo", "/r/x/../bar/"
BuiltinNames ==
    {<<>>, <<"f", "o", "o">>, <<"a", "/", "b">>, <<".", "/", "f", "o", "o">>, <<"/", "r", "/", "x", "/", ".", ".", "/", "b", "a", "r", "/">>}

BuiltinVersions == {<<>>, <<"1", ".", "2", ".", "3">>, <<"m", "a", "i", "n">>}

BuiltinHashes == {None, <<"a", "b", "c">>}

\* the tag lists and default branches of other PackageInfo values
TagLists == {<<>>, <<<<"1", ".", "2", ".", "3">>>>, <<<<"1", ".", "2", ".", "3">>, <<"2", ".", "0">>>>}

DefaultBranches == {None, <<>>, <<"m", "a", "i", "n">>}

\* info = make_builtin_package(name=..., current_version=..., current_hash=...)
MakeBuiltinPackage(name, current_version, current_hash) ==
    LET info == make_builtin_package(fs, name, current_version, current_hash)
    IN  /\ pkgs' = <<info.package>>
        /\ probe' = [op |-> "make_builtin_package", args |-> NoArgs,
                     builtin |-> TRUE, name |-> name,
                     current_version |-> current_version,
                     current_hash |-> current_hash, info |-> info]
        /\ UNCHANGED <<fs, installed, hashes, pvVars, thVars>>

\* info = PackageInfo(package=Package(locator), versions=..., default_branch=...)
NewPackageInfo(locator, versions, default_branch) ==
    LET package == Package(fs, locator, <<>>, <<>>, Absent, None, FALSE)
        info == PackageInfo(package, None, Absent, versions, <<>>, <<>>, <<>>,
                            None, default_branch)
    IN  /\ pkgs' = <<package>>
        /\ probe' = [op |-> "PackageInfo", args |-> NoArgs,
                     builtin |-> FALSE, name |-> locator,
                     current_version |-> None, current_hash |-> None,
                     info |-> info]
        /\ UNCHANGED <<fs, installed, hashes, pvVars, thVars>>

\* info.best_version() and info.is_builtin()
BestVersion ==
    /\ probe.op \in {"make_builtin_package", "PackageInfo"}
    /\ probe' = [op |-> "best_version", args |-> NoArgs,
                 builtin |-> probe.builtin, name |-> probe.name,
                 current_version |-> probe.current_version,
                 current_hash |-> probe.current_hash, info |-> probe.info,
                 out |-> best_version(probe.info),
                 is_builtin |-> is_builtin(probe.info)]
    /\ UNCHANGED <<pkgs, fs, installed, hashes, pvVars, thVars>>

BuiltinNext ==
    \/ \E name \in BuiltinNames, v \in BuiltinVersions, h \in BuiltinHashes :
          MakeBuiltinPackage(name, v, h)
    \/ \E l \in {<<"f", "o", "o">>, BUILTIN_SCHEME \o <<"f", "o", "o">>}, vs \in TagLists, b \in DefaultBranches :
          NewPackageInfo(l, IF vs = <<>> THEN Absent ELSE Given(vs), b)
    \/ BestVersion

SpecBuiltin == PackageInit /\ [][BuiltinNext]_vars

\* C12: for every name, current_version and current_hash the PackageInfo of
\* make_builtin_package has a package whose git_url is the scheme prefix
\* followed by the name as given, whose name is the given name, whose source
\* is the builtin source and for which is_builtin() holds; a status that is
\* loaded, pinned, not outdated, tracked as builtin and carries the given
\* version and hash; and the versions list [current_version], so that
\* best_version() returns current_version.
C12_BuiltinPackage ==
    probe.op \in {"make_builtin_package", "best_version"} /\ probe.builtin =>
       LET package == probe.info.package
           status == probe.info.status
       IN  /\ package.git_url = BUILTIN_SCHEME \o probe.name
           /\ package.name = probe.name
           /\ package.source = BUILTIN_SOURCE
           /\ PackageIsBuiltin(package)
           /\ status.is_loaded
           /\ status.is_pinned
           /\ ~status.is_outdated
           /\ status.tracking_method = TRACKING_METHOD_BUILTIN
           /\ status.current_version = probe.current_version
           /\ status.current_hash = probe.current_hash
           /\ probe.info.versions = <<probe.current_version>>
           /\ probe.op = "best_version" =>
                 /\ probe.out = Returned(probe.current_version)
                 /\ probe.is_builtin

====
